---- MODULE Spec2Model ----
(***************************************************************************)
(* A model of web/utils.py of census-loader: the zoom -> boundary tier     *)
(* table (get_boundary), the simplification tolerance and coordinate       *)
(* precision of a zoom level (get_tolerance, get_decimal_places), the      *)
(* three classification methods that compute map class breaks from a data  *)
(* table joined to a boundary table (get_kmeans_bins,                      *)
(* get_equal_interval_bins, get_equal_count_bins), the primary-key range   *)
(* partitioner (split_sql_into_list) and the multiprocessing dispatchers   *)
(* with their units of work (multiprocess_list, run_sql_multiprocessing,   *)
(* run_command_line, the CSV import and the Shapefile load).               *)
(*                                                                         *)
(* Each group of functions has its own specification over its own          *)
(* variables: SpecZoom, SpecScale, SpecBins, SpecSplit, SpecPool.  The     *)
(* variables of the other groups stay at their idle values.                *)
(***************************************************************************)
EXTENDS Integers, Sequences, FiniteSets

VARIABLES
    \* get_boundary
    zoom_level,          \* the argument of the last get_boundary call
    boundary_name,       \* its first return value ("" before any call)
    min_display_value,   \* its second return value
    \* get_tolerance and get_decimal_places
    tolerance_zoom,      \* the argument of the last get_tolerance call
    tolerance,           \* its return value (NoTolerance before any call)
    places_zoom,         \* the argument of the last get_decimal_places call
    scale_string,        \* the digits after the decimal point it formatted
    places,              \* its return value (0 before any call)
    \* the classification methods
    data_table,          \* region id -> statistic of the data row (NULL or <<v>>)
    bdy_table,           \* region id -> population of the boundary row (NoRow or <<p>>)
    call,                \* the arguments of the last classification call
    rows,                \* the region ids the query of that call selected
    ret,                 \* the list the call returned (<<>> when it raised)
    raised,              \* the exception that left the call ("" when it returned)
    printed,             \* what the call printed
    \* split_sql_into_list
    table_keys,          \* MIN and MAX of the key column (NULL, NULL on an empty table)
    max_concurrent_processes,  \* settings['max_concurrent_processes']
    the_sql,             \* the template statement, a sequence of tokens
    ranges,              \* (start_pkey, end_pkey) of every loop iteration
    sql_list,            \* the returned statements (<<>> unless a list is returned)
    logged,              \* what the call sent to the logger
    split_outcome,       \* how the call ended: "list", "None", "raised" ("" before it)
    \* the multiprocessing dispatchers
    mp_type,             \* the kind of the units: "sql", "cmd", "csv" or "shp"
    work_list,           \* for each unit of work, what the store or the shell does to it
    pool_size,           \* settings['max_concurrent_processes'] of the pool
    pc,                  \* where the dispatcher is: "start", "running", "done", "raised"
    next_task,           \* the index of the next unit a worker will take
    workers,             \* for each worker process, the unit it is running (0: none)
    connection,          \* for each unit, the state of the connection it opened
    results,             \* the results the workers delivered, in completion order
    info_logged          \* what the dispatcher sent to logger.info

zoomVars  == <<zoom_level, boundary_name, min_display_value>>
scaleVars == <<tolerance_zoom, tolerance, places_zoom, scale_string, places>>
binVars   == <<data_table, bdy_table, call, rows, ret, raised, printed>>
splitVars == <<table_keys, max_concurrent_processes, the_sql, ranges, sql_list, logged,
               split_outcome>>
poolVars  == <<mp_type, work_list, pool_size, pc, next_task, workers, connection, results,
               info_logged>>
vars      == <<zoomVars, scaleVars, binVars, splitVars, poolVars>>

\* SQL NULL / Python None, a present value, and "no value was returned".
NULL    == <<>>
Some(v) == <<v>>
Val(x)  == x[1]

(***************************************************************************)
(* get_boundary                                                            *)
(***************************************************************************)
MaxZoom == 30
ZoomLevels == (0 - MaxZoom)..MaxZoom

\* The if/elif chain with the bounds of sa1 and sa2 tested in the wrong order.
get_boundary_swapped(z) ==
    IF z < 7 THEN <<"ste", 80>>
    ELSE IF z < 9 THEN <<"sa4", 40>>
    ELSE IF z < 11 THEN <<"sa3", 20>>
    ELSE IF z < 14 THEN <<"sa1", 10>>
    ELSE IF z < 17 THEN <<"sa2", 15>>
    ELSE <<"mb", 3>>

\* The first tier's bound tested with <= instead of <.
get_boundary_inclusive(z) ==
    IF z <= 7 THEN <<"ste", 80>>
    ELSE IF z < 9 THEN <<"sa4", 40>>
    ELSE IF z < 11 THEN <<"sa3", 20>>
    ELSE IF z < 14 THEN <<"sa2", 15>>
    ELSE IF z < 17 THEN <<"sa1", 10>>
    ELSE <<"mb", 3>>

get_boundary(z) ==
    IF z < 7 THEN <<"ste", 80>>
    ELSE IF z < 9 THEN <<"sa4", 40>>
    ELSE IF z < 11 THEN <<"sa3", 20>>
    ELSE IF z < 14 THEN <<"sa2", 15>>
    ELSE IF z < 17 THEN <<"sa1", 10>>
    ELSE <<"mb", 3>>

ZoomIdle ==
    /\ zoom_level = 0
    /\ boundary_name = ""
    /\ min_display_value = 0

CallGetBoundary ==
    \E z \in ZoomLevels :
        /\ zoom_level' = z
        /\ boundary_name' = get_boundary(z)[1]
        /\ min_display_value' = get_boundary(z)[2]
        /\ UNCHANGED <<scaleVars, binVars, splitVars, poolVars>>


(***************************************************************************)
(* get_tolerance and get_decimal_places                                    *)
(***************************************************************************)
MaxScaleZoom == 22
ScaleZoomLevels == 0..MaxScaleZoom

\* A float that the code derives from 156543.03390625 by dividing by powers
\* of two, squaring and multiplying by small integers is kept as
\*     factor * 156543.03390625^pow * 2^exp2.
\* Dividing a double by a power of two is exact, and the one rounding of the
\* square and of the product is the same at every power of two, so the three
\* fields determine the double the code computes.
MetresPerPixelAtZoom0 == [pow |-> 1, factor |-> 1, exp2 |-> 0]
NoTolerance == [pow |-> 0, factor |-> 0, exp2 |-> 0]

RECURSIVE Pow2(_)
Pow2(n) == IF n <= 0 THEN 1 ELSE 2 * Pow2(n - 1)

\* x / math.pow(2.0, float(k))
DivPow2(x, k) == [x EXCEPT !.exp2 = @ - k]
\* math.pow(x, 2.0)
Square(x) == [pow |-> 2 * x.pow, factor |-> x.factor * x.factor, exp2 |-> 2 * x.exp2]
\* x * n
Times(x, n) == [x EXCEPT !.factor = @ * n]

tolerance_square_pixels == 7

\* The scale of get_decimal_places, 2^zoom_level, in place of 2^(zoom_level + 1).
get_tolerance_full_scale(z) ==
    LET metres_per_pixel == DivPow2(MetresPerPixelAtZoom0, z)
        square_metres_per_pixel == Square(metres_per_pixel)
    IN  Times(square_metres_per_pixel, tolerance_square_pixels)

get_tolerance(z) ==
    LET metres_per_pixel == DivPow2(MetresPerPixelAtZoom0, z + 1)
        square_metres_per_pixel == Square(metres_per_pixel)
    IN  Times(square_metres_per_pixel, tolerance_square_pixels)

\* degrees_per_pixel at zoom 0 is the double 1.4062499998042484 (156543.03390625
\* over metres2degrees): 1406249999 billionths and a fraction above one half.
\* At zoom z it is that double over 2^z, exactly.
DegreesPerPixelE9 == 1406249999

\* "{:10.9f}".format(degrees_per_pixel), as the number of billionths it prints:
\* degrees_per_pixel * 10^9 rounded to the nearest integer (no tie occurs).
format_9f(z) ==
    IF z = 0 THEN DegreesPerPixelE9 + 1
    ELSE LET scale == Pow2(z)
         IN  (DegreesPerPixelE9 \div scale)
             + (IF DegreesPerPixelE9 % scale >= scale \div 2 THEN 1 ELSE 0)

RECURSIVE Pow10(_)
Pow10(n) == IF n <= 0 THEN 1 ELSE 10 * Pow10(n - 1)

\* .split(".")[1]: the nine digits after the decimal point.
split_fraction(billionths) == [i \in 1..9 |-> (billionths \div Pow10(9 - i)) % 10]

\* The loop that counts every zero digit, never changing trigger.
RECURSIVE count_zeros_all(_, _, _)
count_zeros_all(digits, count, trigger) ==
    IF digits = <<>> THEN count
    ELSE IF Head(digits) = 0
         THEN count_zeros_all(Tail(digits), count + 1, trigger)
         ELSE count_zeros_all(Tail(digits), count, trigger)

\* for c in scale_string: if c == trigger: places += 1 else: trigger = "don't ..."
\* trigger is TRUE while it is still "0".
RECURSIVE count_zeros(_, _, _)
count_zeros(digits, count, trigger) ==
    IF digits = <<>> THEN count
    ELSE IF trigger /\ Head(digits) = 0
         THEN count_zeros(Tail(digits), count + 1, trigger)
         ELSE count_zeros(Tail(digits), count, FALSE)

get_decimal_places(z) ==
    LET digits == split_fraction(format_9f(z))
    IN  [scale_string |-> digits, places |-> count_zeros(digits, 1, TRUE)]

ScaleIdle ==
    /\ tolerance_zoom = 0
    /\ tolerance = NoTolerance
    /\ places_zoom = 0
    /\ scale_string = <<>>
    /\ places = 0

CallGetTolerance ==
    \E z \in ScaleZoomLevels :
        /\ tolerance_zoom' = z
        /\ tolerance' = get_tolerance(z)
        /\ UNCHANGED <<places_zoom, scale_string, places, zoomVars, binVars, splitVars,
                       poolVars>>

CallGetDecimalPlaces ==
    \E z \in ScaleZoomLevels :
        /\ places_zoom' = z
        /\ scale_string' = get_decimal_places(z).scale_string
        /\ places' = get_decimal_places(z).places
        /\ UNCHANGED <<tolerance_zoom, tolerance, zoomVars, binVars, splitVars, poolVars>>


(***************************************************************************)
(* The store: a data table and a boundary table                            *)
(***************************************************************************)
MaxRegions == 3
MaxClasses == 4
RegionIds  == 1..MaxRegions
\* A region without a boundary row.
NoRow       == NULL
\* min_val as callers of get_kmeans_bins supply it.
MinVals     == {3, 5}
MapTypes    == {"values", "percent"}
\* Class counts are positive.
NumClasses  == 1..MaxClasses

\* Python floats, kept exact: a rational num/den with den > 0.
Rat(v)       == [num |-> v, den |-> 1]
RatAdd(a, b) == [num |-> a.num * b.den + b.num * a.den, den |-> a.den * b.den]
RatSub(a, b) == [num |-> a.num * b.den - b.num * a.den, den |-> a.den * b.den]
RatDiv(a, n) == [num |-> a.num, den |-> a.den * n]
RatEq(a, b)  == a.num * b.den = b.num * a.den
RatLeq(a, b) == a.num * b.den <= b.num * a.den

\* FROM data AS tab INNER JOIN boundary AS bdy ON tab.<region id> = bdy.id
InnerJoin == {id \in RegionIds : bdy_table[id] # NoRow}

stat(id)       == data_table[id]
population(id) == Val(bdy_table[id])

\* A comparison with NULL is not true in SQL.
Gt(x, n) == x # NULL /\ Val(x) > n
Lt(x, n) == x # NULL /\ Val(x) < n

\* ORDER BY f: the elements of S as a sequence, ascending by f.
RECURSIVE OrderBy(_, _)
OrderBy(S, f) ==
    IF S = {} THEN <<>>
    ELSE LET m == CHOOSE x \in S : \A y \in S : f[x] <= f[y]
         IN  <<m>> \o OrderBy(S \ {m}, f)

MaxOf(S) == CHOOSE x \in S : \A y \in S : y <= x
MinOf(S) == CHOOSE x \in S : \A y \in S : x <= y

\* "{0} - {1} Failed: {2}".format(data_table, stat_field, ex)
FailedMessage == "data_table - stat_field Failed: ex"

NoCall == [fn |-> "none", num_classes |-> 0, map_type |-> "", min_val |-> NULL,
           db_error |-> FALSE]

BinsIdle ==
    /\ data_table = [id \in {} |-> NULL]
    /\ bdy_table = [id \in {} |-> NoRow]
    /\ call = NoCall
    /\ rows = {}
    /\ ret = <<>>
    /\ raised = ""
    /\ printed = <<>>

\* The tables a call can find.  No query looks at a region id beyond the join,
\* so the tables are drawn up to a renaming of the region ids: region by
\* region in a fixed order of (statistic, population).
StatOrder == <<NULL, Some(0 - 1), Some(0), Some(20), Some(60), Some(100)>>
PopOrder  == <<NoRow, Some(5), Some(6)>>
RowKinds  == 0..(Len(StatOrder) * Len(PopOrder) - 1)
KindStat(k) == StatOrder[(k \div Len(PopOrder)) + 1]
KindPop(k)  == PopOrder[(k % Len(PopOrder)) + 1]

(***************************************************************************)
(* get_equal_interval_bins                                                 *)
(***************************************************************************)
\* What a call leaves behind: the rows its query selected, the return value
\* or the exception, and what it printed.
Returned(sel, value, out) == [rows |-> sel, ret |-> value, raised |-> "", printed |-> out]
Raised(sel, ex, out)      == [rows |-> sel, ret |-> <<>>, raised |-> ex, printed |-> out]

\* WHERE stat > 0 [AND stat < 100.0] AND bdy.population > 5
equal_interval_query_rows(map_type) ==
    {id \in InnerJoin :
        /\ Gt(stat(id), 0)
        /\ (map_type = "percent" => Lt(stat(id), 100))
        /\ population(id) > 5}

\* SELECT MIN(stat) AS min, MAX(stat) AS max: NULL, NULL when no row is selected.
MinMaxRow(sel) ==
    LET vals == {Val(stat(id)) : id \in sel}
    IN  IF sel = {} THEN [min |-> NULL, max |-> NULL]
        ELSE [min |-> Some(MinOf(vals)), max |-> Some(MaxOf(vals))]

\* for i in range(0, num_classes): output_list.append(curr_val); curr_val += delta
RECURSIVE equal_interval_loop(_, _, _, _, _)
equal_interval_loop(i, num_classes, curr_val, delta, output_list) ==
    IF i >= num_classes THEN output_list
    ELSE equal_interval_loop(i + 1, num_classes, RatAdd(curr_val, delta), delta,
                             Append(output_list, curr_val))

\* The loop with the two statements of its body exchanged: the interval ends.
RECURSIVE equal_interval_ends(_, _, _, _, _)
equal_interval_ends(i, num_classes, curr_val, delta, output_list) ==
    IF i >= num_classes THEN output_list
    ELSE equal_interval_ends(i + 1, num_classes, RatAdd(curr_val, delta), delta,
                             Append(output_list, RatAdd(curr_val, delta)))

equal_interval_breaks_ends(min_val, max_val, num_classes) ==
    equal_interval_ends(0, num_classes, Rat(min_val),
                        RatDiv(RatSub(Rat(max_val), Rat(min_val)), num_classes), <<>>)

\* delta = (max_val - min_val) / float(num_classes), then the loop.
equal_interval_breaks(min_val, max_val, num_classes) ==
    equal_interval_loop(0, num_classes, Rat(min_val),
                        RatDiv(RatSub(Rat(max_val), Rat(min_val)), num_classes), <<>>)

\* The code after the try block with a guard for an empty selection added.
equal_interval_output_guarded(sel, row, num_classes) ==
    IF row.min = NULL \/ row.max = NULL
    THEN Returned(sel, <<>>, <<>>)
    ELSE Returned(sel, equal_interval_breaks(Val(row.min), Val(row.max), num_classes), <<>>)

\* The code after the try block: None - None raises TypeError, uncaught.
equal_interval_output(sel, row, num_classes) ==
    IF row.min = NULL \/ row.max = NULL
    THEN Raised(sel, "TypeError", <<>>)
    ELSE Returned(sel, equal_interval_breaks(Val(row.min), Val(row.max), num_classes), <<>>)

\* An except block that lets the error of the store through.
except_reraise(out) == Raised({}, "ex", out)

\* except Exception as ex: print(...); return list()
equal_interval_except(out) == Returned({}, <<>>, Append(out, FailedMessage))

get_equal_interval_bins(num_classes, map_type, db_error) ==
    IF db_error THEN equal_interval_except(<<>>)
    ELSE LET sel == equal_interval_query_rows(map_type)
         IN  equal_interval_output(sel, MinMaxRow(sel), num_classes)

\* The call's outcome written to the state.  The functions keep nothing from
\* one call to the next and leave the tables alone, so a behaviour is one call.
Leaves(c, outcome) ==
    /\ call = NoCall
    /\ call' = c
    /\ rows' = outcome.rows
    /\ ret' = outcome.ret
    /\ raised' = outcome.raised
    /\ printed' = outcome.printed
    /\ UNCHANGED <<data_table, bdy_table, zoomVars, scaleVars, splitVars, poolVars>>

CallEqualInterval ==
    \E n \in NumClasses, m \in MapTypes, e \in BOOLEAN :
        Leaves([fn |-> "equal_interval", num_classes |-> n, map_type |-> m,
                min_val |-> NULL, db_error |-> e],
               get_equal_interval_bins(n, m, e))

(***************************************************************************)
(* get_kmeans_bins                                                         *)
(***************************************************************************)
\* The query with the minimum population of the other two methods written in.
kmeans_query_rows_fixed_minimum(map_type, min_val) ==
    {id \in InnerJoin :
        /\ Gt(stat(id), 0)
        /\ (map_type = "percent" => Lt(stat(id), 100))
        /\ population(id) > 5}

\* WHERE stat > 0.0 [AND stat < 100.0] AND bdy.population > float(min_val)
kmeans_query_rows(map_type, min_val) ==
    {id \in InnerJoin :
        /\ Gt(stat(id), 0)
        /\ (map_type = "percent" => Lt(stat(id), 100))
        /\ population(id) > min_val}

\* ST_ClusterKMeans(pnt, k) OVER (): the store gives every selected row one
\* of at most k cluster ids.  The points lie on a line and a row belongs to
\* the nearest centre, so a cluster is an interval of values; where the
\* intervals end is the store's choice (uppers: the largest value of each).
ST_ClusterKMeans(sel, k) ==
    LET vals == {Val(stat(id)) : id \in sel}
        top  == IF vals = {} THEN {} ELSE {MaxOf(vals)}
    IN  {[id \in sel |-> Cardinality({u \in lower \cup top : u < Val(stat(id))}) + 1] :
            lower \in {u \in SUBSET (vals \ top) : Cardinality(u) < k}}

\* SELECT MAX(val) AS val ... GROUP BY group_id ORDER BY <order>, and the loop
\* that appends row["val"] of every row fetched.
GroupMaxima(sel, group_id, order_by_val) ==
    LET groups == {group_id[id] : id \in sel}
        max_val == [g \in groups |->
                       MaxOf({Val(stat(id)) : id \in {x \in sel : group_id[x] = g}})]
        fetched == OrderBy(groups, IF order_by_val THEN max_val ELSE [g \in groups |-> g])
    IN  [i \in 1..Len(fetched) |-> Rat(max_val[fetched[i]])]

kmeans_except(out) == Returned({}, <<>>, Append(out, FailedMessage))

\* cluster_id is the clustering the store answers with.
get_kmeans_bins(num_classes, min_val, map_type, db_error, cluster_id) ==
    IF db_error THEN kmeans_except(<<>>)
    ELSE LET sel == kmeans_query_rows(map_type, min_val)
         IN  Returned(sel, GroupMaxima(sel, cluster_id, TRUE), <<>>)

CallKMeans ==
    \E n \in NumClasses, v \in MinVals, m \in MapTypes, e \in BOOLEAN :
        \E cluster_id \in (IF e THEN {<<>>}
                           ELSE ST_ClusterKMeans(kmeans_query_rows(m, v), n)) :
            Leaves([fn |-> "kmeans", num_classes |-> n, map_type |-> m,
                    min_val |-> Some(v), db_error |-> e],
                   get_kmeans_bins(n, v, m, e, cluster_id))

(***************************************************************************)
(* get_equal_count_bins                                                    *)
(***************************************************************************)
\* WHERE stat > 0.0 [AND stat < 100.0] AND bdy.population > 5.0
equal_count_query_rows(map_type) ==
    {id \in InnerJoin :
        /\ Gt(stat(id), 0)
        /\ (map_type = "percent" => Lt(stat(id), 100))
        /\ population(id) > 5}

\* The rows left over given to the last buckets instead of the first.
ntile_remainder_last(buckets, n_rows, r) ==
    LET base  == n_rows \div buckets
        small == buckets - (n_rows % buckets)
    IN  IF r <= small * base
        THEN ((r - 1) \div base) + 1
        ELSE small + ((r - small * base - 1) \div (base + 1)) + 1

\* ntile(buckets) of the r-th of n_rows ordered rows: the first
\* n_rows % buckets buckets hold one row more than the others.
ntile(buckets, n_rows, r) ==
    LET base == n_rows \div buckets
        rem  == n_rows % buckets
    IN  IF r <= rem * (base + 1)
        THEN ((r - 1) \div (base + 1)) + 1
        ELSE rem + ((r - rem * (base + 1) - 1) \div base) + 1

\* The percent query names its bucket count itself: ntile(7).
PercentBuckets == 7

\* ntile(<buckets>) OVER (ORDER BY stat) AS class_id
ClassIds(sel, buckets) ==
    LET ordered == OrderBy(sel, [id \in sel |-> Val(stat(id))])
    IN  [id \in sel |->
            ntile(buckets, Len(ordered), CHOOSE r \in 1..Len(ordered) : ordered[r] = id)]

equal_count_except(out) == Returned({}, <<>>, Append(out, FailedMessage))

get_equal_count_bins(num_classes, map_type, db_error) ==
    LET buckets == IF map_type = "values" THEN num_classes ELSE PercentBuckets
        sel == equal_count_query_rows(map_type)
    IN  IF db_error THEN equal_count_except(<<"sql_string">>)
        ELSE Returned(sel, GroupMaxima(sel, ClassIds(sel, buckets), FALSE), <<"sql_string">>)

CallEqualCount ==
    \E n \in NumClasses, m \in MapTypes, e \in BOOLEAN :
        Leaves([fn |-> "equal_count", num_classes |-> n, map_type |-> m,
                min_val |-> NULL, db_error |-> e],
               get_equal_count_bins(n, m, e))

(***************************************************************************)
(* split_sql_into_list                                                     *)
(***************************************************************************)
MaxSpan      == 49
MaxProcesses == 4
MaxSqlLen    == 2
MinKeys      == {0 - 2, 1}
\* settings['max_concurrent_processes']: small pools, and a pool of ten, larger
\* than a small table can use.
Processes    == (1..MaxProcesses) \cup {10}

\* A statement is a sequence of tokens.  A token is <<text>>, or the range
\* predicate "alias.gid > start AND alias.gid <= end" as <<"range", start, end>>.
Token(t)          == <<t>>
RangeToken(s, e)  == <<"range", s, e>>
\* The pieces of a template the function looks for, and any other text.  WHERE
\* may follow a space or a line break.
Pieces    == {"text", " WHERE ", "\nWHERE ", "GROUP BY ", "ORDER BY ", ";"}
Templates == UNION {[1..n -> {Token(t) : t \in Pieces}] : n \in 1..MaxSqlLen}

\* sub in the_sql, for the substrings the function tests.
HasSubstring(sql, sub) ==
    \E i \in 1..Len(sql) :
        \/ sql[i] = Token(sub)
        \/ sub = "WHERE " /\ sql[i] \in {Token(" WHERE "), Token("\nWHERE ")}

\* the_sql.replace(old, new): every occurrence of the token old becomes new.
RECURSIVE Replace(_, _, _)
Replace(sql, old, new) ==
    IF sql = <<>> THEN <<>>
    ELSE (IF Head(sql) = Token(old) THEN new ELSE <<Head(sql)>>)
         \o Replace(Tail(sql), old, new)

\* " WHERE {0}.{3} > {1} AND {0}.{3} <= {2}"
where_clause(start_pkey, end_pkey) ==
    <<Token(" WHERE "), RangeToken(start_pkey, end_pkey)>>

\* The if/elif chain that builds mp_sql, and whether it logs the warning.
inject(sql, clause) ==
    IF HasSubstring(sql, "WHERE ")
    THEN [mp_sql |-> Replace(sql, " WHERE ", clause \o <<Token(" AND ")>>), warned |-> FALSE]
    ELSE IF HasSubstring(sql, "GROUP BY ")
    THEN [mp_sql |-> Replace(sql, "GROUP BY ", clause \o <<Token(" GROUP BY ")>>),
          warned |-> FALSE]
    ELSE IF HasSubstring(sql, "ORDER BY ")
    THEN [mp_sql |-> Replace(sql, "ORDER BY ", clause \o <<Token(" ORDER BY ")>>),
          warned |-> FALSE]
    ELSE IF HasSubstring(sql, ";")
    THEN [mp_sql |-> Replace(sql, ";", clause \o <<Token(";")>>), warned |-> FALSE]
    ELSE [mp_sql |-> sql \o clause, warned |-> TRUE]

\* rows_per_request without its + 1.
partition_plan_floor(diff, p) ==
    IF diff < 10 * p
    THEN [rows_per_request |-> 10, processes |-> (diff \div 10) + 1, adjusted |-> TRUE]
    ELSE [rows_per_request |-> diff \div p, processes |-> p, adjusted |-> FALSE]

\* The low-row-count branch without its recomputation of processes.
partition_plan_keep_processes(diff, p) ==
    IF diff < 10 * p
    THEN [rows_per_request |-> 10, processes |-> p, adjusted |-> TRUE]
    ELSE [rows_per_request |-> (diff \div p) + 1, processes |-> p, adjusted |-> FALSE]

\* rows_per_request and processes, from diff and settings['max_concurrent_processes'].
\* float(diff) / float(p) < 10.0 is diff < 10 * p; floor of a quotient of
\* non-negative numbers is \div.
partition_plan(diff, p) ==
    IF diff < 10 * p
    THEN [rows_per_request |-> 10, processes |-> (diff \div 10) + 1, adjusted |-> TRUE]
    ELSE [rows_per_request |-> (diff \div p) + 1, processes |-> p, adjusted |-> FALSE]

\* for i in range(0, processes): ...; start_pkey = end_pkey
RECURSIVE split_loop(_, _, _, _, _, _)
split_loop(i, processes, start_pkey, rows_per_request, sql, acc) ==
    IF i >= processes THEN acc
    ELSE LET end_pkey == start_pkey + rows_per_request
             made == inject(sql, where_clause(start_pkey, end_pkey))
         IN  split_loop(i + 1, processes, end_pkey, rows_per_request, sql,
                 [ranges   |-> Append(acc.ranges, <<start_pkey, end_pkey>>),
                  sql_list |-> Append(acc.sql_list, made.mp_sql),
                  logged   |-> IF made.warned
                               THEN Append(acc.logged, [level |-> "warning", msg |-> "no ; found", ex |-> ""])
                               ELSE acc.logged])

\* start_pkey = min_pkey - 1
first_start_pkey(min_pkey) == min_pkey - 1

\* The body of the try block, for a table that has keys.
split_try(keys, p, sql) ==
    LET min_pkey == Val(keys.min)
        max_pkey == Val(keys.max)
        plan == partition_plan(max_pkey - min_pkey, p)
        made == split_loop(0, plan.processes, first_start_pkey(min_pkey), plan.rows_per_request, sql,
            [ranges |-> <<>>, sql_list |-> <<>>,
             logged |-> IF plan.adjusted
                        THEN <<[level |-> "info", msg |-> "running processes (adjusted)", ex |-> ""]>>
                        ELSE <<>>])
    IN  [ranges |-> made.ranges, sql_list |-> made.sql_list, outcome |-> "list",
         logged |-> made.logged]

\* The except block returning an empty list, silently.
split_except_empty_list ==
    [ranges |-> <<>>, sql_list |-> <<>>, outcome |-> "list", logged |-> <<>>]

\* int(None) raises TypeError inside the try block: logger.fatal(...), return None.
split_except ==
    [ranges |-> <<>>, sql_list |-> <<>>, outcome |-> "None",
     logged |-> <<[level |-> "fatal", msg |-> "min_max_sql", ex |-> "TypeError"]>>]

split_sql_into_list(keys, p, sql) ==
    IF keys.min = NULL \/ keys.max = NULL THEN split_except ELSE split_try(keys, p, sql)

SplitIdle ==
    /\ table_keys = [min |-> NULL, max |-> NULL]
    /\ max_concurrent_processes = 1
    /\ the_sql = <<>>
    /\ ranges = <<>>
    /\ sql_list = <<>>
    /\ logged = <<>>
    /\ split_outcome = ""

TableKeys ==
    {[min |-> NULL, max |-> NULL]}
    \cup {[min |-> Some(a), max |-> Some(a + d)] : a \in MinKeys, d \in 0..MaxSpan}

\* pg_cur.execute(min_max_sql) is outside the try block: an error of the
\* store leaves the function.
CallSplitSqlIntoList ==
    \E db_error \in BOOLEAN :
        /\ IF db_error
           THEN /\ split_outcome' = "raised"
                /\ ranges' = <<>>
                /\ sql_list' = <<>>
                /\ logged' = <<>>
           ELSE LET out == split_sql_into_list(table_keys, max_concurrent_processes, the_sql)
                IN  /\ ranges' = out.ranges
                    /\ sql_list' = out.sql_list
                    /\ logged' = out.logged
                    /\ split_outcome' = out.outcome
        /\ UNCHANGED <<table_keys, max_concurrent_processes, the_sql, zoomVars, scaleVars,
                       binVars, poolVars>>

(***************************************************************************)
(* The multiprocessing dispatchers and their units of work                 *)
(***************************************************************************)
MaxUnits   == 3
MaxWorkers == 2

\* What happens to a unit of work is decided by the store, the shell and the
\* files, not by the code: each unit of the work list carries its fate.
SqlFates == {"ok", "execute_fails", "connect_fails"}
CmdFates == {"ok", "exit_nonzero", "call_raises"}
CsvFates == {"ok", "import_fails", "execute_raises", "connect_fails"}
ShpFates == {"ok", "convert_fails", "sql_fails", "cluster_fails", "connect_fails"}
Fates(type) ==
    CASE type = "sql" -> SqlFates
      [] type = "cmd" -> CmdFates
      [] type = "csv" -> CsvFates
      [] type = "shp" -> ShpFates
MpTypes == {"sql", "cmd", "csv", "shp"}
WorkLists(type) == UNION {[1..n -> Fates(type)] : n \in 0..MaxUnits}

\* What a unit function hands back to the pool: a returned string, with the
\* unit its text names (0: none), or an exception that left the function.
Value(text, names) == [raised |-> FALSE, text |-> text, names |-> names]
Exception(text)    == [raised |-> TRUE, text |-> text, names |-> 0]
SUCCESS            == Value("SUCCESS", 0)

\* A run of a unit function: whether psycopg2.connect gave it a connection,
\* the state it leaves that connection in ("none": never opened; "closed":
\* pg_conn.close() was called; "leaked": the function ended without closing
\* it), and what it hands back.
Run(opened, left, result) == [opened |-> opened, connection |-> left, result |-> result]
ConnectFailed == Run(FALSE, "none", Exception("psycopg2.OperationalError"))

\* connect is outside the try block; execute is inside it; both paths close.
run_sql_multiprocessing(i, fate) ==
    IF fate = "connect_fails" THEN ConnectFailed
    ELSE IF fate = "ok" THEN Run(TRUE, "closed", SUCCESS)
    ELSE Run(TRUE, "closed", Value("SQL FAILED!", i))

\* The result of subprocess.call is not read: a command that ran is a SUCCESS
\* whatever its exit status.
run_command_line(i, fate) ==
    IF fate = "call_raises" THEN Run(FALSE, "none", Value("COMMAND FAILED!", i))
    ELSE Run(FALSE, "none", SUCCESS)

\* The statements before and after the try block raise out of the function;
\* the except block returns without closing; only the last lines close.
run_csv_import_multiprocessing(i, fate) ==
    CASE fate = "connect_fails"  -> ConnectFailed
      [] fate = "execute_raises" -> Run(TRUE, "leaked", Exception("psycopg2.Error"))
      [] fate = "import_fails"   ->
            Run(TRUE, "leaked", Value("IMPORT CSV INTO POSTGRES FAILED!", i))
      [] fate = "ok"             -> Run(TRUE, "closed", SUCCESS)

import_shapefile_to_postgres(i, fate) ==
    CASE fate = "convert_fails" -> Value("Couldn't convert Shapefile to SQL", i)
      [] fate = "sql_fails"     -> Value("Couldn't run Shapefile SQL", i)
      [] fate = "cluster_fails" -> Value("Couldn't cluster on spatial index", i)
      [] fate = "ok"            -> SUCCESS

\* Connects, imports and returns: no close() on any path.
intermediate_shapefile_load_step(i, fate) ==
    IF fate = "connect_fails" THEN ConnectFailed
    ELSE Run(TRUE, "leaked", import_shapefile_to_postgres(i, fate))

\* The function each dispatcher hands to pool.imap_unordered.
unit_function(type, i, fate) ==
    CASE type = "sql" -> run_sql_multiprocessing(i, fate)
      [] type = "cmd" -> run_command_line(i, fate)
      [] type = "csv" -> run_csv_import_multiprocessing(i, fate)
      [] type = "shp" -> intermediate_shapefile_load_step(i, fate)

PoolIdle ==
    /\ mp_type = "sql"
    /\ work_list = <<>>
    /\ pool_size = 1
    /\ pc = "start"
    /\ next_task = 1
    /\ workers = <<>>
    /\ connection = <<>>
    /\ results = <<>>
    /\ info_logged = <<>>

NotPool == UNCHANGED <<zoomVars, scaleVars, binVars, splitVars>>

\* pool = multiprocessing.Pool(...); results = pool.imap_unordered(...); pool.close()
CallMultiprocess ==
    /\ pc = "start"
    /\ pc' = "running"
    /\ workers' = [w \in 1..pool_size |-> 0]
    /\ connection' = [i \in 1..Len(work_list) |-> "none"]
    /\ next_task' = 1
    /\ UNCHANGED <<mp_type, work_list, pool_size, results, info_logged>>
    /\ NotPool

\* An idle worker process takes the next unit and enters its function, which
\* connects to the store first.
WorkerTakes(w) ==
    /\ pc = "running"
    /\ workers[w] = 0
    /\ next_task <= Len(work_list)
    /\ workers' = [workers EXCEPT ![w] = next_task]
    /\ next_task' = next_task + 1
    /\ connection' = [connection EXCEPT ![next_task] =
            IF unit_function(mp_type, next_task, work_list[next_task]).opened
            THEN "open" ELSE "none"]
    /\ UNCHANGED <<mp_type, work_list, pool_size, pc, results, info_logged>>
    /\ NotPool

\* The function of the unit ends; the pool receives what it handed back.
WorkerFinishes(w) ==
    /\ pc = "running"
    /\ workers[w] # 0
    /\ LET i   == workers[w]
           run == unit_function(mp_type, i, work_list[i])
       IN  /\ connection' = [connection EXCEPT ![i] = run.connection]
           /\ results' = Append(results, [unit |-> i, result |-> run.result])
    /\ workers' = [workers EXCEPT ![w] = 0]
    /\ UNCHANGED <<mp_type, work_list, pool_size, pc, next_task, info_logged>>
    /\ NotPool

IsFailure(delivered) == delivered.result # SUCCESS

\* pool.join() returns once every unit has run and the worker processes have
\* exited, which ends the connections they never closed.  list(results) then
\* re-raises the first exception a unit function raised, and the dispatcher is
\* left by it; otherwise every result other than "SUCCESS" goes to logger.info.
\* (num_jobs > num_results needs a worker that died without a result, which
\* no fate here produces.)
PoolJoined ==
    /\ pc = "running"
    /\ next_task > Len(work_list)
    /\ \A w \in 1..pool_size : workers[w] = 0
    /\ connection' = [i \in 1..Len(work_list) |->
            IF connection[i] \in {"open", "leaked"} THEN "reset" ELSE connection[i]]
    /\ IF \E j \in 1..Len(results) : results[j].result.raised
       THEN /\ pc' = "raised"
            /\ info_logged' = <<>>
       ELSE /\ pc' = "done"
            /\ info_logged' = SelectSeq(results, IsFailure)
    /\ UNCHANGED <<mp_type, work_list, pool_size, next_task, workers, results>>
    /\ NotPool

(***************************************************************************)
(* Specifications                                                          *)
(***************************************************************************)
\* A request for a zoom level arrives; get_boundary has not run yet.
InitZoom ==
    /\ zoom_level \in ZoomLevels
    /\ boundary_name = ""
    /\ min_display_value = 0
    /\ ScaleIdle
    /\ BinsIdle
    /\ SplitIdle
    /\ PoolIdle

SpecZoom == InitZoom /\ [][CallGetBoundary]_vars

InitBins ==
    /\ \E kind \in [RegionIds -> RowKinds] :
          /\ \A i, j \in RegionIds : i <= j => kind[i] <= kind[j]
          /\ data_table = [id \in RegionIds |-> KindStat(kind[id])]
          /\ bdy_table = [id \in RegionIds |-> KindPop(kind[id])]
    /\ call = NoCall
    /\ rows = {}
    /\ ret = <<>>
    /\ raised = ""
    /\ printed = <<>>
    /\ ZoomIdle
    /\ ScaleIdle
    /\ SplitIdle
    /\ PoolIdle

NextBins == CallKMeans \/ CallEqualInterval \/ CallEqualCount
SpecBins == InitBins /\ [][NextBins]_vars

InitSplit ==
    /\ ZoomIdle
    /\ ScaleIdle
    /\ BinsIdle
    /\ PoolIdle
    /\ table_keys \in TableKeys
    /\ max_concurrent_processes \in Processes
    /\ the_sql \in Templates
    /\ ranges = <<>>
    /\ sql_list = <<>>
    /\ logged = <<>>
    /\ split_outcome = ""

SpecSplit == InitSplit /\ [][CallSplitSqlIntoList]_vars

\* Neither function has run yet.
InitScale ==
    /\ ScaleIdle
    /\ ZoomIdle
    /\ BinsIdle
    /\ SplitIdle
    /\ PoolIdle

\* A dispatcher is about to be called with a work list.
InitPool ==
    /\ mp_type \in MpTypes
    /\ work_list \in WorkLists(mp_type)
    /\ pool_size \in 1..MaxWorkers
    /\ pc = "start"
    /\ next_task = 1
    /\ workers = <<>>
    /\ connection = <<>>
    /\ results = <<>>
    /\ info_logged = <<>>
    /\ ZoomIdle
    /\ ScaleIdle
    /\ BinsIdle
    /\ SplitIdle

NextPool ==
    \/ CallMultiprocess
    \/ \E w \in 1..pool_size : WorkerTakes(w)
    \/ \E w \in 1..pool_size : WorkerFinishes(w)
    \/ PoolJoined
SpecPool == InitPool /\ [][NextPool]_vars

NextScale == CallGetTolerance \/ CallGetDecimalPlaces
SpecScale == InitScale /\ [][NextScale]_vars

(***************************************************************************)
(* Properties of get_boundary (SpecZoom)                                   *)
(***************************************************************************)
\* The tier table of the specification: zoom in [from, below), NULL for no bound.
TierTable ==
    {[from |-> NULL,     below |-> Some(7),  resolution |-> "ste", threshold |-> 80],
     [from |-> Some(7),  below |-> Some(9),  resolution |-> "sa4", threshold |-> 40],
     [from |-> Some(9),  below |-> Some(11), resolution |-> "sa3", threshold |-> 20],
     [from |-> Some(11), below |-> Some(14), resolution |-> "sa2", threshold |-> 15],
     [from |-> Some(14), below |-> Some(17), resolution |-> "sa1", threshold |-> 10],
     [from |-> Some(17), below |-> NULL,     resolution |-> "mb",  threshold |-> 3]}

InTier(z, t) ==
    /\ t.from = NULL \/ Val(t.from) <= z
    /\ t.below = NULL \/ z < Val(t.below)

\* C1: after get_boundary(zoom) for any integer zoom, exactly one tier of the
\* table holds the zoom, and the returned (resolution, minimum threshold) pair
\* is that tier's: <7 ste 80, <9 sa4 40, <11 sa3 20, <14 sa2 15, <17 sa1 10,
\* otherwise mb 3.  Every call returns a pair.
C1_TierTable ==
    boundary_name # "" =>
        LET hit == {t \in TierTable : InTier(zoom_level, t)}
        IN  /\ Cardinality(hit) = 1
            /\ \A t \in hit : /\ boundary_name = t.resolution
                              /\ min_display_value = t.threshold

\* A call above the top boundary has fallen through to the finest tier.
C1_Witness == zoom_level > 17 /\ boundary_name = "mb" /\ min_display_value = 3

\* The resolutions from coarsest to finest.
Coarseness ==
    [r \in {"ste", "sa4", "sa3", "sa2", "sa1", "mb"} |->
        CASE r = "ste" -> 1 [] r = "sa4" -> 2 [] r = "sa3" -> 3
          [] r = "sa2" -> 4 [] r = "sa1" -> 5 [] r = "mb" -> 6]

\* C2: when a call for zoom z1 is followed by a call for a zoom z2 > z1, the
\* resolution of z1 is coarser than or equal to that of z2 in the order ste,
\* sa4, sa3, sa2, sa1, mb, and the minimum threshold of z1 is greater than or
\* equal to that of z2.
C2_Monotonic ==
    [][(boundary_name # "" /\ zoom_level < zoom_level') =>
         /\ Coarseness[boundary_name] <= Coarseness[boundary_name']
         /\ min_display_value >= min_display_value']_vars

\* A call has answered with a middle tier: calls for larger and for smaller
\* zooms follow it.
C2_Witness == zoom_level = 12 /\ boundary_name = "sa2" /\ min_display_value = 15

(***************************************************************************)
(* Properties of get_tolerance and get_decimal_places (SpecScale)          *)
(***************************************************************************)
Smaller(m, n) == IF m < n THEN m ELSE n

\* a < b for two values factor * 156543.03390625^pow * 2^exp2 of one pow and
\* factors in 1..1000: the exponents are compared after taking out their
\* common part, and a difference of 20 binary places decides by itself.
ValueLess(a, b) ==
    LET d == a.exp2 - b.exp2
    IN  IF d >= 0
        THEN a.factor * Pow2(Smaller(d, 20)) < b.factor
        ELSE a.factor < b.factor * Pow2(Smaller(0 - d, 20))

SameValue(a, b) == a.pow = b.pow /\ ~ValueLess(a, b) /\ ~ValueLess(b, a)

\* 7 * (156543.03390625 / 2^(zoom + 1))^2 = 7 * 156543.03390625^2 * 2^(-2(zoom + 1))
SevenSquares(zoom) == [pow |-> 2, factor |-> 7, exp2 |-> 0 - 2 * (zoom + 1)]

ToleranceAnswered == tolerance # NoTolerance

\* C14: get_tolerance(zoom) is 7 times the square of
\* 156543.03390625 / 2^(zoom + 1), so get_tolerance(0) is
\* 7 * (156543.03390625 / 2)^2; a call for a larger zoom returns a strictly
\* smaller tolerance than the call before it, and a call for the next zoom
\* returns a quarter of it.
C14_Tolerance ==
    /\ [](ToleranceAnswered =>
            /\ SameValue(tolerance, SevenSquares(tolerance_zoom))
            /\ tolerance_zoom = 0 =>
                  SameValue(tolerance, Times(Square(DivPow2(MetresPerPixelAtZoom0, 1)), 7)))
    /\ [][(ToleranceAnswered /\ tolerance_zoom < tolerance_zoom') =>
            /\ ValueLess(tolerance', tolerance)
            /\ tolerance_zoom' = tolerance_zoom + 1 =>
                  SameValue(Times(tolerance', 4), tolerance)]_vars

\* get_tolerance(0) has answered 7 * 156543.03390625^2 / 4.
C14_Witness ==
    /\ tolerance_zoom = 0
    /\ tolerance = [pow |-> 2, factor |-> 7, exp2 |-> 0 - 2]

\* The number of zero digits before the first digit that is not zero.
LeadingZeros(digits) ==
    Cardinality({k \in 1..Len(digits) : \A j \in 1..k : digits[j] = 0})

RECURSIVE DigitsValue(_)
DigitsValue(digits) ==
    IF digits = <<>> THEN 0
    ELSE 10 * DigitsValue(SubSeq(digits, 1, Len(digits) - 1)) + digits[Len(digits)]

\* The digits are those of 1.406249999.../2^zoom to nine decimal places: at
\* zoom 0 the fraction .406250000, and beyond it a number of billionths within
\* one of 1406249999 / 2^zoom.
NineDecimals(digits, zoom) ==
    /\ Len(digits) = 9
    /\ \A j \in 1..9 : digits[j] \in 0..9
    /\ IF zoom = 0
       THEN digits = <<4, 0, 6, 2, 5, 0, 0, 0, 0>>
       ELSE LET n == DigitsValue(digits)
            IN  /\ (n - 1) * Pow2(zoom) <= 1406249999
                /\ 1406249999 <= (n + 1) * Pow2(zoom)

PlacesAnswered == places # 0

\* C15: get_decimal_places(zoom) is 1 plus the number of leading zero digits
\* after the decimal point of the degrees-per-pixel value of that zoom written
\* with 9 decimal places; it is an integer of at least 1 for every zoom in
\* 0..20 (and up to MaxScaleZoom), and a call for a larger zoom never returns
\* less than the call before it.
C15_DecimalPlaces ==
    /\ [](PlacesAnswered =>
            /\ NineDecimals(scale_string, places_zoom)
            /\ places = 1 + LeadingZeros(scale_string)
            /\ places \in Nat
            /\ places >= 1)
    /\ [][(PlacesAnswered /\ places_zoom <= places_zoom') => places <= places']_vars

\* get_decimal_places(20) has answered 6 for 0.000001341.
C15_Witness ==
    /\ places_zoom = 20
    /\ scale_string = <<0, 0, 0, 0, 0, 1, 3, 4, 1>>
    /\ places = 6

(***************************************************************************)
(* Properties of the classification methods (SpecBins)                     *)
(***************************************************************************)
Methods == {"kmeans", "equal_interval", "equal_count"}

\* The call's query ran and answered.
QueryAnswered == call.fn \in Methods /\ ~call.db_error

\* The statistics of a set of regions, and their smallest and largest.
StatsOf(S) == {Val(data_table[id]) : id \in S}

Ascending(seq) == \A i \in 1..(Len(seq) - 1) : RatLeq(seq[i], seq[i + 1])

\* MIN + i * (MAX - MIN) / n for i = 0 .. n - 1.
IntervalStarts(lo, hi, n) == [i \in 1..n |-> [num |-> lo * n + (i - 1) * (hi - lo), den |-> n]]

SameNumbers(a, b) == Len(a) = Len(b) /\ \A i \in 1..Len(a) : RatEq(a[i], b[i])

EqualIntervalAnswered == call.fn = "equal_interval" /\ ~call.db_error /\ rows # {}

\* The example of the specification, on the arithmetic alone: no filtered
\* MIN is 0, the query selects statistics above 0 only.
IntervalExample ==
    SameNumbers(equal_interval_breaks(0, 100, 4), <<Rat(0), Rat(25), Rat(50), Rat(75)>>)

\* C3 as stated: with MIN and MAX present, equal-interval returns num_classes
\* breaks, the i-th being MIN + i * (MAX - MIN) / num_classes, the first is MIN,
\* and MAX is never returned.
C3_Original ==
    EqualIntervalAnswered =>
        LET lo == MinOf(StatsOf(rows))
            hi == MaxOf(StatsOf(rows))
        IN  /\ raised = ""
            /\ SameNumbers(ret, IntervalStarts(lo, hi, call.num_classes))
            /\ RatEq(ret[1], Rat(lo))
            /\ \A i \in 1..Len(ret) : ~RatEq(ret[i], Rat(hi))

\* C3 amended: with MIN and MAX present, equal-interval returns num_classes
\* breaks, the i-th being MIN + i * (MAX - MIN) / num_classes, the first is MIN,
\* and MAX is not returned when MIN < MAX (when MIN = MAX every break is that
\* one value); 4 classes over MIN = 0, MAX = 100 give 0, 25, 50, 75.
C3_IntervalStarts ==
    /\ IntervalExample
    /\ EqualIntervalAnswered =>
        LET lo == MinOf(StatsOf(rows))
            hi == MaxOf(StatsOf(rows))
        IN  /\ raised = ""
            /\ SameNumbers(ret, IntervalStarts(lo, hi, call.num_classes))
            /\ RatEq(ret[1], Rat(lo))
            /\ lo < hi => \A i \in 1..Len(ret) : ~RatEq(ret[i], Rat(hi))
            /\ lo = hi => \A i \in 1..Len(ret) : RatEq(ret[i], Rat(lo))

\* Four classes over MIN = 20 and MAX = 100: 20, 40, 60, 80.
C3_Witness ==
    /\ EqualIntervalAnswered
    /\ call.num_classes = 4
    /\ StatsOf(rows) = {20, 100}
    /\ SameNumbers(ret, <<Rat(20), Rat(40), Rat(60), Rat(80)>>)

\* C4: for the three methods and both map types, a call that returns, returns
\* breaks in ascending order, at most num_classes of them.
C4_AscendingAtMostNumClasses ==
    (call.fn \in Methods /\ raised = "") =>
        /\ Ascending(ret)
        /\ Len(ret) <= call.num_classes

\* C5: get_kmeans_bins and get_equal_count_bins never raise.  When the query
\* raises they print the table, the field and the error and return an empty
\* list; when the query selects no row they return an empty list.
C5_NeverRaises ==
    call.fn \in {"kmeans", "equal_count"} =>
        /\ raised = ""
        /\ call.db_error =>
              /\ ret = <<>>
              /\ printed # <<>>
              /\ printed[Len(printed)] = FailedMessage
        /\ (~call.db_error /\ rows = {}) => ret = <<>>

\* The store has raised during a K-means call.
C5_Witness ==
    /\ call.fn = "kmeans"
    /\ call.db_error
    /\ ret = <<>>
    /\ printed = <<FailedMessage>>

\* C6 as stated: when the equal-interval query raises, the call ends in a
\* failure the caller sees, not in an empty result.
C6_Original ==
    (call.fn = "equal_interval" /\ call.db_error) => raised # ""

\* C6 amended: when the equal-interval query raises, the call prints the
\* table, the field and the error and returns an empty list, as the other two
\* methods do; nothing is raised to the caller.
C6_QueryErrorCaught ==
    (call.fn = "equal_interval" /\ call.db_error) =>
        /\ raised = ""
        /\ ret = <<>>
        /\ printed = <<FailedMessage>>

C6_Witness == call.fn = "equal_interval" /\ call.db_error /\ ret = <<>>

\* C7: when the equal-interval query answers and no row passes its filters,
\* the call raises; it returns neither an empty list nor breaks.
C7_EmptyInputRaises ==
    (call.fn = "equal_interval" /\ ~call.db_error /\ rows = {}) =>
        /\ raised = "TypeError"
        /\ ret = <<>>

\* No region qualifies although the tables hold regions with a boundary row
\* and a statistic.
C7_Witness ==
    /\ call.fn = "equal_interval"
    /\ ~call.db_error
    /\ rows = {}
    /\ raised = "TypeError"
    /\ \E id \in RegionIds : bdy_table[id] # NoRow /\ data_table[id] # NULL

\* The minimum population of the call: min_val for K-means, 5 for the others.
MinimumPopulation == IF call.fn = "kmeans" THEN Val(call.min_val) ELSE 5

\* The regions with a boundary row, a statistic that is present and passes
\* the test on its sign (above zero, or merely not zero), below 100 for map
\* type percent, and a population above the minimum.
QualifyingRows(above_zero) ==
    {id \in RegionIds :
        /\ bdy_table[id] # NoRow
        /\ data_table[id] # NULL
        /\ IF above_zero THEN Val(data_table[id]) > 0 ELSE Val(data_table[id]) # 0
        /\ call.map_type = "percent" => Val(data_table[id]) < 100
        /\ Val(bdy_table[id]) > MinimumPopulation}

\* The result is the one the statistics of the regions S give: the interval
\* starts between their smallest and largest; or statistics of S only, the
\* largest of S being the last break.
ComputedOver(S) ==
    IF call.fn = "equal_interval"
    THEN IF S = {} THEN raised # ""
         ELSE /\ raised = ""
              /\ SameNumbers(ret, IntervalStarts(MinOf(StatsOf(S)), MaxOf(StatsOf(S)),
                                                 call.num_classes))
    ELSE /\ raised = ""
         /\ \A i \in 1..Len(ret) : \E v \in StatsOf(S) : RatEq(ret[i], Rat(v))
         /\ S = {} => ret = <<>>
         /\ S # {} => /\ Len(ret) >= 1
                      /\ RatEq(ret[Len(ret)], Rat(MaxOf(StatsOf(S))))

\* C8 as stated: every method computes its breaks over exactly the regions
\* that join a boundary row, whose statistic is present and not zero (below
\* 100 for percent), and whose population exceeds the minimum.
C8_Original ==
    QueryAnswered =>
        /\ rows = QualifyingRows(FALSE)
        /\ ComputedOver(QualifyingRows(FALSE))

\* C8 amended: every method computes its breaks over exactly the regions that
\* join a boundary row, whose statistic is present and greater than zero
\* (below 100 for percent), and whose population exceeds the minimum: min_val
\* for K-means, 5 for equal-interval and equal-count.
C8_FilteredRows ==
    QueryAnswered =>
        /\ rows = QualifyingRows(TRUE)
        /\ ComputedOver(QualifyingRows(TRUE))

\* A K-means call with min_val = 3 has taken a region of population 5 and left
\* out another region.
C8_Witness ==
    /\ call.fn = "kmeans"
    /\ ~call.db_error
    /\ call.min_val = Some(3)
    /\ \E id \in rows : bdy_table[id] = Some(5)
    /\ rows # RegionIds

\* C9: equal-count with map type values and num_classes = n, over at least n
\* selected rows ordered by statistic and cut by rank into n buckets (the
\* first N mod n buckets one row longer), returns n values, the largest of
\* each bucket in bucket order, each at most the next.
C9_BucketMaxima ==
    (call.fn = "equal_count" /\ call.map_type = "values" /\ ~call.db_error
       /\ Cardinality(rows) >= call.num_classes) =>
        LET n == call.num_classes
            ordered == OrderBy(rows, [id \in rows |-> Val(data_table[id])])
            last_rank(b) == b * (Len(ordered) \div n)
                            + (IF b < Len(ordered) % n THEN b ELSE Len(ordered) % n)
        IN  /\ raised = ""
            /\ Len(ret) = n
            /\ \A b \in 1..n : RatEq(ret[b], Rat(Val(data_table[ordered[last_rank(b)]])))
            /\ Ascending(ret)

\* Three rows in two buckets: 20 and 60, then 100.
C9_Witness ==
    /\ call.fn = "equal_count"
    /\ call.map_type = "values"
    /\ call.num_classes = 2
    /\ Cardinality(rows) = 3
    /\ ret = <<Rat(60), Rat(100)>>

(***************************************************************************)
(* Properties of split_sql_into_list (SpecSplit)                           *)
(***************************************************************************)
\* Key k lies in the half-open range (start, end].
InRange(k, range) == range[1] < k /\ k <= range[2]

RangeSize(range) == range[2] - range[1]

\* The partitions the call made all hold `size` keys and there are `count` of them.
Partitioned(size, count) ==
    /\ Len(ranges) = count
    /\ Len(sql_list) = count
    /\ \A i \in 1..Len(ranges) : RangeSize(ranges[i]) = size

\* The documented example: min = 1, max = 5, target = 10.
PlanExample ==
    /\ table_keys = [min |-> Some(1), max |-> Some(5)]
    /\ max_concurrent_processes = 10

C11_AdjustedReached ==
    /\ split_outcome = "list"
    /\ max_concurrent_processes = 4
    /\ table_keys = [min |-> Some(1), max |-> Some(26)]
    /\ Len(ranges) = 3

\* The ways a WHERE keyword can stand in a statement: after a space, or at the
\* start of a line.
WhereKeywords == {" WHERE ", "\nWHERE "}

Contains(statement, texts) == \E j \in 1..Len(statement) : statement[j][1] \in texts

\* The clause the range predicate belongs at, in priority order.
ChosenClause(template) ==
    IF Contains(template, WhereKeywords) THEN "WHERE"
    ELSE IF Contains(template, {"GROUP BY "}) THEN "GROUP BY"
    ELSE IF Contains(template, {"ORDER BY "}) THEN "ORDER BY"
    ELSE IF Contains(template, {";"}) THEN ";"
    ELSE "end"

IsPredicate(token, range) == Len(token) = 3 /\ token = <<"range", range[1], range[2]>>

\* The statement holds the predicate of the range, directly followed by `next`.
PredicateBefore(statement, range, next) ==
    \E j \in 1..(Len(statement) - 1) :
        IsPredicate(statement[j], range) /\ statement[j + 1][1] = next

\* The statement ends with the predicate of the range.
PredicateLast(statement, range) ==
    statement # <<>> /\ IsPredicate(statement[Len(statement)], range)

IsCondition(token) == token[1] \notin WhereKeywords \cup {"range", " AND "}

\* The statement holds the predicate of the range at the clause chosen for the
\* template.
InjectedAtChosenClause(template, statement, range) ==
    LET clause == ChosenClause(template)
    IN  /\ clause = "WHERE" =>
              /\ PredicateBefore(statement, range, " AND ")
              /\ SelectSeq(statement, IsCondition) = SelectSeq(template, IsCondition)
        /\ clause = "GROUP BY" => PredicateBefore(statement, range, " GROUP BY ")
        /\ clause = "ORDER BY" => PredicateBefore(statement, range, " ORDER BY ")
        /\ clause = ";" => PredicateBefore(statement, range, ";")
        /\ clause = "end" => PredicateLast(statement, range)

Warned == \E j \in 1..Len(logged) : logged[j].level = "warning"

\* C12: every generated statement holds the range predicate of its partition,
\* at the clause chosen in the order WHERE, GROUP BY, ORDER BY, before the
\* semicolon, else at the end of the statement with a warning logged; with a
\* WHERE in the template the predicate is followed by AND and everything else
\* of the template is kept.
C12_PredicateInjected ==
    split_outcome = "list" =>
        /\ \A i \in 1..Len(sql_list) :
              InjectedAtChosenClause(the_sql, sql_list[i], ranges[i])
        /\ ChosenClause(the_sql) = "end" => Warned

\* A template whose WHERE starts a line: the statements come back unchanged.
C12_UnchangedStatement ==
    /\ split_outcome = "list"
    /\ the_sql = <<Token("text"), Token("\nWHERE ")>>
    /\ table_keys = [min |-> Some(1), max |-> Some(50)]
    /\ max_concurrent_processes = 2
    /\ sql_list = <<the_sql, the_sql>>

\* C12 for the templates whose every WHERE follows a space.
C12_AfterSpace ==
    ~Contains(the_sql, {"\nWHERE "}) => C12_PredicateInjected

EmptyTable == table_keys.min = NULL /\ table_keys.max = NULL

\* The call has ended and the store answered its min/max query.
SplitAnswered == split_outcome \in {"list", "None"}

\* C13: on an empty table (the min/max query answers with no minimum and no
\* maximum) the call logs one fatal message holding the min/max query and the
\* exception that was caught, and returns None; no call on an empty table
\* returns a list of statements.
C13_EmptyTableFatal ==
    EmptyTable =>
        /\ split_outcome # "list"
        /\ sql_list = <<>>
        /\ SplitAnswered =>
              /\ split_outcome = "None"
              /\ Len(logged) = 1
              /\ logged[1].level = "fatal"
              /\ logged[1].msg = "min_max_sql"
              /\ logged[1].ex = "TypeError"

\* The call on an empty table has returned None.
C13_Witness ==
    /\ EmptyTable
    /\ split_outcome = "None"
    /\ Len(logged) = 1
    /\ logged[1].level = "fatal"

(***************************************************************************)
(* Properties of the dispatchers and their units of work (SpecPool)        *)
(***************************************************************************)
Units == 1..Len(work_list)
BatchEnded == pc \in {"done", "raised"}
UnitFailed(i) == work_list[i] # "ok"
AllWorkersFinished ==
    /\ Len(results) = Len(work_list)
    /\ \A i \in Units : Cardinality({j \in 1..Len(results) : results[j].unit = i}) = 1

IsErrorResult(delivered) ==
    ~delivered.result.raised /\ delivered.result.text # "SUCCESS"

\* C16: in a batch run by multiprocess_list (SQL statements or commands), a
\* unit that fails never aborts the batch: what it hands back is its own
\* result, an error text and not an exception in the caller; every unit has
\* run when the batch ends; nothing is logged before all workers have
\* finished; and the caller then logs every result that is not SUCCESS, in
\* completion order.
C16_FailureNeverAborts ==
    mp_type \in {"sql", "cmd"} =>
        /\ pc # "raised"
        /\ \A j \in 1..Len(results) :
              UnitFailed(results[j].unit) => IsErrorResult(results[j])
        /\ BatchEnded => AllWorkersFinished
        /\ info_logged # <<>> => AllWorkersFinished
        /\ BatchEnded => info_logged = SelectSeq(results, IsErrorResult)

\* One statement could not connect and another failed in the store: the
\* dispatcher was left by the exception and logged nothing.
C16_BatchAborted ==
    /\ mp_type = "sql"
    /\ work_list = <<"connect_fails", "execute_fails">>
    /\ pc = "raised"
    /\ Len(results) = 2
    /\ info_logged = <<>>

\* C16 for batches whose every unit gets its connection and whose every
\* command that runs exits with status 0.
C16_WithoutConnectFailure ==
    (\A i \in Units : work_list[i] \notin {"connect_fails", "exit_nonzero"})
        => C16_FailureNeverAborts

OpensConnection == mp_type \in {"sql", "csv", "shp"}

\* C17: a unit of work that opened a store connection (SQL statement, CSV
\* import, Shapefile load) has closed it when its result is delivered, on its
\* success path and on every failure path; and once the batch has ended no
\* connection of any unit is open.
C17_ConnectionsClosed ==
    OpensConnection =>
        /\ \A j \in 1..Len(results) :
              connection[results[j].unit] \in {"none", "closed"}
        /\ BatchEnded => \A i \in Units : connection[i] \notin {"open", "leaked"}

\* A Shapefile load has succeeded and left its connection open.
C17_ShapefileLeaked ==
    /\ mp_type = "shp"
    /\ work_list = <<"ok">>
    /\ pc = "running"
    /\ Len(results) = 1
    /\ results[1].result = SUCCESS
    /\ connection[1] = "leaked"

\* C17 for the SQL statements alone.
C17_SqlConnectionsClosed ==
    mp_type = "sql" => C17_ConnectionsClosed

\* C17 after the batch: the exit of the worker processes ends what was left open.
C17_NoneOpenAfterBatch ==
    BatchEnded => \A i \in Units : connection[i] \notin {"open", "leaked"}

\* The ways a statement or a command fails once it is being run.
RunFailures == {"execute_fails", "exit_nonzero", "call_raises"}

\* C18: for SQL statements and shell commands, a unit is reported as SUCCESS
\* only if it succeeded; a statement that fails in the store and a command
\* that fails (one that cannot be run, or one that runs and exits with a
\* non-zero status) are reported with a result other than SUCCESS that names
\* the unit.
C18_SuccessOnlyWhenSucceeded ==
    mp_type \in {"sql", "cmd"} =>
        \A j \in 1..Len(results) :
            LET i == results[j].unit
            IN  /\ results[j].result = SUCCESS => ~UnitFailed(i)
                /\ work_list[i] \in RunFailures =>
                      /\ IsErrorResult(results[j])
                      /\ results[j].result.names = i

\* A command has exited with a non-zero status and was reported as SUCCESS.
C18_FailedCommandSuccess ==
    /\ mp_type = "cmd"
    /\ work_list = <<"exit_nonzero">>
    /\ pc = "done"
    /\ results = <<[unit |-> 1, result |-> SUCCESS]>>
    /\ info_logged = <<>>

\* C18 for the SQL statements alone.
C18_SqlResults ==
    mp_type = "sql" => C18_SuccessOnlyWhenSucceeded

====
